---- MODULE Spec2Model ----
(***************************************************************************)
(* extract_privatekey.py: read a key file, base64-decode it, check that    *)
(* the payload has at least 33 bytes, and print bytes 1..32 as hex.        *)
(*                                                                         *)
(* Text is a sequence of code points, bytes are 0..255.  Two invocations   *)
(* of the program are modelled (Runs), the second on an input related to   *)
(* the first, so that statements comparing two runs are state predicates.  *)
(***************************************************************************)
EXTENDS Integers, Sequences, FiniteSets

VARIABLES argv, fs, pc, key_file_path, handle, key_data, data,
          private_key_bytes, private_key_hex, exc, stdout, stderr,
          status, trace

vars == <<argv, fs, pc, key_file_path, handle, key_data, data,
          private_key_bytes, private_key_hex, exc, stdout, stderr,
          status, trace>>

(* ------------------------------ bounds -------------------------------- *)
\* command-line arguments supplied after the program name: 0..MaxArgs
MaxArgs == 2
\* short payloads have 0..MaxShort bytes (besides MinLen - 1)
MaxShort == 1
\* long payloads have up to MinLen + MaxExtra bytes
MaxExtra == 2

Runs == {1, 2}

(* ------------------------- program constants -------------------------- *)
\* if len(data) < 33
MinLen == 33
\* data[1:33]
SliceLo == 1
SliceHi == 33
\* if len(sys.argv) != 2
ExpectedArgv == 2

(* ----------------------------- characters ----------------------------- *)
NL == <<10>>
PAD == 61

\* str.strip() with no argument removes the characters str.isspace() accepts
IsSpace(c) == c \in {9, 10, 11, 12, 13, 28, 29, 30, 31, 32, 133, 160}

RECURSIVE lstrip(_)
lstrip(s) ==
    IF s # <<>> /\ IsSpace(Head(s)) THEN lstrip(Tail(s)) ELSE s

RECURSIVE rstrip(_)
rstrip(s) ==
    IF s # <<>> /\ IsSpace(s[Len(s)]) THEN rstrip(SubSeq(s, 1, Len(s) - 1)) ELSE s

strip_droplast(s) == IF s = <<>> THEN s ELSE SubSeq(s, 1, Len(s) - 1)

\* f.read().strip()
strip(s) == rstrip(lstrip(s))

(* ------------------------------- base64 ------------------------------- *)
\* binascii's table_a2b_base64: the 6-bit value of a character, 255 if none
table_a2b_base64(c) ==
    IF c >= 65 /\ c <= 90 THEN c - 65
    ELSE IF c >= 97 /\ c <= 122 THEN c - 71
    ELSE IF c >= 48 /\ c <= 57 THEN c + 4
    ELSE IF c = 43 THEN 62
    ELSE IF c = 47 THEN 63
    ELSE 255

\* base64._bytes_from_decode_data: s.encode('ascii')
IsAscii(s) == \A i \in 1..Len(s) : s[i] < 128

\* binascii.a2b_base64(s, strict_mode=False): the loop over the characters.
\* st = [quad_pos, leftchar, pads, out, stop]
a2b_step(st, c) ==
    IF st.stop THEN st
    ELSE IF c = PAD THEN
        IF st.quad_pos >= 2 /\ st.quad_pos + st.pads + 1 >= 4
        THEN [st EXCEPT !.stop = TRUE, !.quad_pos = 0]
        ELSE IF st.quad_pos >= 2 THEN [st EXCEPT !.pads = @ + 1] ELSE st
    ELSE LET v == table_a2b_base64(c) IN
        IF v >= 64 THEN st
        ELSE CASE st.quad_pos = 0 ->
                    [st EXCEPT !.pads = 0, !.quad_pos = 1, !.leftchar = v]
               [] st.quad_pos = 1 ->
                    [st EXCEPT !.pads = 0, !.quad_pos = 2,
                               !.out = Append(@, (st.leftchar * 4 + v \div 16) % 256),
                               !.leftchar = v % 16]
               [] st.quad_pos = 2 ->
                    [st EXCEPT !.pads = 0, !.quad_pos = 3,
                               !.out = Append(@, (st.leftchar * 16 + v \div 4) % 256),
                               !.leftchar = v % 4]
               [] OTHER ->
                    [st EXCEPT !.pads = 0, !.quad_pos = 0,
                               !.out = Append(@, (st.leftchar * 64 + v) % 256),
                               !.leftchar = 0]

RECURSIVE a2b_loop(_, _, _)
a2b_loop(s, i, st) ==
    IF i > Len(s) THEN st ELSE a2b_loop(s, i + 1, a2b_step(st, s[i]))

a2b_base64(s) ==
    a2b_loop(s, 1, [quad_pos |-> 0, leftchar |-> 0, pads |-> 0,
                    out |-> <<>>, stop |-> FALSE])

NoExc == [type |-> "None", msg |-> "", code |-> 0]

b64decode_unpadded(s) ==
    [ok |-> IsAscii(s), value |-> a2b_base64(s).out,
     exc |-> IF IsAscii(s) THEN NoExc
             ELSE [type |-> "ValueError",
                   msg |-> "string argument should contain only ASCII characters",
                   code |-> 0]]

\* base64.b64decode(key_data): [ok, value, exc]
b64decode(s) ==
    IF ~IsAscii(s)
    THEN [ok |-> FALSE, value |-> <<>>,
          exc |-> [type |-> "ValueError",
                   msg |-> "string argument should contain only ASCII characters",
                   code |-> 0]]
    ELSE LET st == a2b_base64(s) IN
        IF st.quad_pos = 0
        THEN [ok |-> TRUE, value |-> st.out, exc |-> NoExc]
        ELSE IF st.quad_pos = 1
        THEN [ok |-> FALSE, value |-> <<>>,
              exc |-> [type |-> "binascii.Error",
                       msg |-> "Invalid base64-encoded string: number of data characters cannot be 1 more than a multiple of 4",
                       code |-> (Len(st.out) \div 3) * 4 + 1]]
        ELSE [ok |-> FALSE, value |-> <<>>,
              exc |-> [type |-> "binascii.Error", msg |-> "Incorrect padding",
                       code |-> 0]]

(* -------------------------------- hex --------------------------------- *)
hexdigit_upper(v) == IF v < 10 THEN 48 + v ELSE 55 + v

\* bytes.hex(): digits 0-9a-f
hexdigit(v) == IF v < 10 THEN 48 + v ELSE 87 + v

RECURSIVE hex(_)
hex(b) ==
    IF b = <<>> THEN <<>>
    ELSE <<hexdigit(Head(b) \div 16), hexdigit(Head(b) % 16)>> \o hex(Tail(b))

\* data[lo:hi] for 0 <= lo <= hi
slice(b, lo, hi) ==
    LET h == IF hi > Len(b) THEN Len(b) ELSE hi IN
    IF lo >= h THEN <<>> ELSE SubSeq(b, lo + 1, h)

(* ------------------------------- inputs ------------------------------- *)
\* The key file format of the module docstring: base64 of flag || privkey.
b64char(v) ==
    IF v < 26 THEN 65 + v
    ELSE IF v < 52 THEN 71 + v
    ELSE IF v < 62 THEN v - 4
    ELSE IF v = 62 THEN 43 ELSE 47

RECURSIVE b64encode(_)
b64encode(b) ==
    IF b = <<>> THEN <<>>
    ELSE IF Len(b) = 1 THEN
        <<b64char(b[1] \div 4), b64char((b[1] % 4) * 16), PAD, PAD>>
    ELSE IF Len(b) = 2 THEN
        <<b64char(b[1] \div 4), b64char((b[1] % 4) * 16 + b[2] \div 16),
          b64char((b[2] % 16) * 4), PAD>>
    ELSE <<b64char(b[1] \div 4), b64char((b[1] % 4) * 16 + b[2] \div 16),
           b64char((b[2] % 16) * 4 + b[3] \div 64), b64char(b[3] % 64)>>
         \o b64encode(SubSeq(b, 4, Len(b)))

Flags == {0, 1, 255}
Seeds == {1, 7}
Tails == {0, 200}
Lens == (0..MaxShort) \cup ((MinLen - 1)..(MinLen + MaxExtra))
Mangles == {"none", "junk", "droplast", "extrapad", "nonascii", "afterpad"}
Leads == {<<>>, <<32>>}
Trails == {<<>>, <<10>>}

\* flag || privkey || trailing bytes, cut to n bytes
Payload(n, flag, seed, tail) ==
    [i \in 1..n |-> IF i = 1 THEN flag
                    ELSE IF i <= MinLen THEN (seed * (i - 1) + (seed - 1) * 91) % 256
                    ELSE (tail + i) % 256]

\* file bodies that are not the plain encoding
Mangle(e, m) ==
    CASE m = "junk" -> SubSeq(e, 1, Len(e) \div 2) \o <<33>>
                       \o SubSeq(e, Len(e) \div 2 + 1, Len(e))
      [] m = "droplast" -> IF e = <<>> THEN <<65>> ELSE SubSeq(e, 1, Len(e) - 1)
      [] m = "extrapad" -> e \o <<PAD>>
      [] m = "nonascii" -> e \o <<233>>
      [] m = "afterpad" -> e \o <<81, 85, 74, 68>>
      [] OTHER -> e

Descs ==
    [n : Lens, flag : Flags, seed : Seeds, tail : {0}, mangle : Mangles,
     lead : Leads, trail : Trails]

Text(d) ==
    d.lead \o Mangle(b64encode(Payload(d.n, d.flag, d.seed, d.tail)), d.mangle)
    \o d.trail

\* inputs of a second run that are related to the first run's
DescVariants(d) ==
    {[d EXCEPT !.lead = <<10, 32>> \o @], [d EXCEPT !.trail = @ \o <<32, 10>>],
     [d EXCEPT !.lead = <<9>> \o @, !.trail = @ \o <<10>>]}
    \cup {[d EXCEPT !.flag = f] : f \in Flags \ {d.flag}}
    \cup {[d EXCEPT !.n = n, !.tail = t] :
              n \in {k \in Lens : k >= MinLen /\ d.n >= MinLen}, t \in Tails \ {0}}
    \cup {[d EXCEPT !.n = n] : n \in {k \in Lens : k = d.n + 1}}

ProgName == "extract_privatekey.py"
KeyPath == "starcoin_client.key"

Argv(argc) == <<ProgName>> \o [i \in 1..argc |-> IF i = 1 THEN KeyPath ELSE "extra"]

FileStatuses == {"ok", "missing", "denied", "isdir", "undecodable"}

\* an input: the argument vector and the file that the path names
KeyInput(d) == [argv |-> Argv(1), fs |-> [status |-> "ok", text |-> Text(d)]]

DefaultText == Text([n |-> MinLen, flag |-> 0, seed |-> 1, tail |-> 0,
                     mangle |-> "none", lead |-> <<>>, trail |-> <<10>>])

OtherInputs ==
    {[argv |-> Argv(1), fs |-> [status |-> st, text |-> <<>>]] :
        st \in FileStatuses \ {"ok"}}
    \cup {[argv |-> Argv(c), fs |-> [status |-> "ok", text |-> DefaultText]] :
            c \in (0..MaxArgs) \ {1}}

InputPairs ==
    UNION {{<<KeyInput(d), KeyInput(v)>> : v \in DescVariants(d)} : d \in Descs}
    \cup (OtherInputs \X OtherInputs)
    \cup {<<x, [argv |-> Argv(1), fs |-> [status |-> "ok", text |-> DefaultText]]>> :
            x \in OtherInputs}

(* ------------------------------- state -------------------------------- *)
Usage(prog) == [kind |-> "Usage", arg |-> prog, len |-> 0, min |-> 0]
NotFound(path) == [kind |-> "Key file not found", arg |-> path, len |-> 0, min |-> 0]
TooShort(n) == [kind |-> "Decoded data too short", arg |-> "", len |-> n, min |-> MinLen]
Error(e) == [kind |-> "ERROR", arg |-> e.msg, len |-> e.code, min |-> 0]

Init ==
    \E p \in InputPairs :
        /\ argv = [r \in Runs |-> p[r].argv]
        /\ fs = [r \in Runs |-> p[r].fs]
        /\ pc = [r \in Runs |-> "main"]
        /\ key_file_path = [r \in Runs |-> ""]
        /\ handle = [r \in Runs |-> "none"]
        /\ key_data = [r \in Runs |-> <<>>]
        /\ data = [r \in Runs |-> <<>>]
        /\ private_key_bytes = [r \in Runs |-> <<>>]
        /\ private_key_hex = [r \in Runs |-> <<>>]
        /\ exc = [r \in Runs |-> NoExc]
        /\ stdout = [r \in Runs |-> <<>>]
        /\ stderr = [r \in Runs |-> <<>>]
        /\ status = [r \in Runs |-> <<>>]
        /\ trace = [r \in Runs |-> <<>>]

TooFewArgs(a) == Len(a) < ExpectedArgv

\* len(sys.argv) != 2
WrongArgc(a) == Len(a) # ExpectedArgv

\* The invocations are made one after the other.
Started(r) == \A q \in Runs : q < r => pc[q] = "done"

\* if len(sys.argv) != 2: usage on stderr, sys.exit(1)
MainUsage(r) ==
    /\ pc[r] = "main" /\ Started(r)
    /\ WrongArgc(argv[r])
    /\ stderr' = [stderr EXCEPT ![r] = Append(@, Usage(argv[r][1]))]
    /\ status' = [status EXCEPT ![r] = <<1>>]
    /\ pc' = [pc EXCEPT ![r] = "done"]
    /\ trace' = [trace EXCEPT ![r] = Append(@, "usage")]
    /\ UNCHANGED <<argv, fs, key_file_path, handle, key_data, data,
                   private_key_bytes, private_key_hex, exc, stdout>>

\* key_file_path = sys.argv[1]; extract_private_key(key_file_path)
MainCall(r) ==
    /\ pc[r] = "main" /\ Started(r)
    /\ ~WrongArgc(argv[r])
    /\ key_file_path' = [key_file_path EXCEPT ![r] = argv[r][2]]
    /\ pc' = [pc EXCEPT ![r] = "open"]
    /\ trace' = [trace EXCEPT ![r] = Append(@, "call")]
    /\ UNCHANGED <<argv, fs, handle, key_data, data, private_key_bytes,
                   private_key_hex, exc, stdout, stderr, status>>

\* the exception open() raises for a file it cannot open
OpenError(st) ==
    CASE st = "missing" -> [type |-> "FileNotFoundError",
                            msg |-> "No such file or directory", code |-> 2]
      [] st = "denied" -> [type |-> "PermissionError",
                           msg |-> "Permission denied", code |-> 13]
      [] st = "isdir" -> [type |-> "IsADirectoryError",
                          msg |-> "Is a directory", code |-> 21]
      [] OTHER -> NoExc

\* with open(key_file_path, 'r') as f
Open(r) ==
    /\ pc[r] = "open"
    /\ trace' = [trace EXCEPT ![r] = Append(@, "open:r")]
    /\ IF OpenError(fs[r].status) # NoExc
       THEN /\ exc' = [exc EXCEPT ![r] = OpenError(fs[r].status)]
            /\ pc' = [pc EXCEPT ![r] = "except"]
            /\ UNCHANGED handle
       ELSE /\ handle' = [handle EXCEPT ![r] = "open"]
            /\ pc' = [pc EXCEPT ![r] = "read"]
            /\ UNCHANGED exc
    /\ UNCHANGED <<argv, fs, key_file_path, key_data, data, private_key_bytes,
                   private_key_hex, stdout, stderr, status>>

\* key_data = f.read().strip()
Read(r) ==
    /\ pc[r] = "read"
    /\ trace' = [trace EXCEPT ![r] = Append(@, "read")]
    /\ IF fs[r].status = "undecodable"
       THEN /\ exc' = [exc EXCEPT ![r] = [type |-> "UnicodeDecodeError",
                                          msg |-> "invalid start byte", code |-> 0]]
            /\ UNCHANGED key_data
       ELSE /\ key_data' = [key_data EXCEPT ![r] = strip(fs[r].text)]
            /\ UNCHANGED exc
    /\ pc' = [pc EXCEPT ![r] = "close"]
    /\ UNCHANGED <<argv, fs, key_file_path, handle, data, private_key_bytes,
                   private_key_hex, stdout, stderr, status>>

CloseSkippedOnError(r) ==
    /\ pc[r] = "close"
    /\ handle' = [handle EXCEPT ![r] = IF exc[r] = NoExc THEN "closed" ELSE @]
    /\ trace' = [trace EXCEPT ![r] = Append(@, "close")]
    /\ pc' = [pc EXCEPT ![r] = IF exc[r] = NoExc THEN "decode" ELSE "except"]
    /\ UNCHANGED <<argv, fs, key_file_path, key_data, data, private_key_bytes,
                   private_key_hex, exc, stdout, stderr, status>>

\* leaving the with block, normally or by an exception, closes the file
Close(r) ==
    /\ pc[r] = "close"
    /\ handle' = [handle EXCEPT ![r] = "closed"]
    /\ trace' = [trace EXCEPT ![r] = Append(@, "close")]
    /\ pc' = [pc EXCEPT ![r] = IF exc[r] = NoExc THEN "decode" ELSE "except"]
    /\ UNCHANGED <<argv, fs, key_file_path, key_data, data, private_key_bytes,
                   private_key_hex, exc, stdout, stderr, status>>

\* data = base64.b64decode(key_data)
Decode(r) ==
    /\ pc[r] = "decode"
    /\ trace' = [trace EXCEPT ![r] = Append(@, "decode")]
    /\ LET res == b64decode(key_data[r]) IN
        IF res.ok
        THEN /\ data' = [data EXCEPT ![r] = res.value]
             /\ pc' = [pc EXCEPT ![r] = "check"]
             /\ UNCHANGED exc
        ELSE /\ exc' = [exc EXCEPT ![r] = res.exc]
             /\ pc' = [pc EXCEPT ![r] = "except"]
             /\ UNCHANGED data
    /\ UNCHANGED <<argv, fs, key_file_path, handle, key_data, private_key_bytes,
                   private_key_hex, stdout, stderr, status>>

TooShortLoose(b) == Len(b) < MinLen - 1

TooShortInclusive(b) == Len(b) <= MinLen

\* len(data) < 33
IsTooShort(b) == Len(b) < MinLen

\* if len(data) < 33: length diagnostic on stderr, sys.exit(1)
Check(r) ==
    /\ pc[r] = "check"
    /\ trace' = [trace EXCEPT ![r] = Append(@, "check")]
    /\ IF IsTooShort(data[r])
       THEN /\ stderr' = [stderr EXCEPT ![r] = Append(@, TooShort(Len(data[r])))]
            /\ exc' = [exc EXCEPT ![r] = [type |-> "SystemExit", msg |-> "1", code |-> 1]]
            /\ pc' = [pc EXCEPT ![r] = "except"]
       ELSE /\ pc' = [pc EXCEPT ![r] = "slice"]
            /\ UNCHANGED <<stderr, exc>>
    /\ UNCHANGED <<argv, fs, key_file_path, handle, key_data, data,
                   private_key_bytes, private_key_hex, stdout, status>>

KeyBytesFromFlag(b) == slice(b, 0, SliceHi - 1)

\* data[1:33]
KeyBytes(b) == slice(b, SliceLo, SliceHi)

\* private_key_bytes = data[1:33]
Slice(r) ==
    /\ pc[r] = "slice"
    /\ trace' = [trace EXCEPT ![r] = Append(@, "slice")]
    /\ private_key_bytes' = [private_key_bytes EXCEPT ![r] = KeyBytes(data[r])]
    /\ pc' = [pc EXCEPT ![r] = "hex"]
    /\ UNCHANGED <<argv, fs, key_file_path, handle, key_data, data,
                   private_key_hex, exc, stdout, stderr, status>>

\* private_key_hex = private_key_bytes.hex()
Hex(r) ==
    /\ pc[r] = "hex"
    /\ trace' = [trace EXCEPT ![r] = Append(@, "hex")]
    /\ private_key_hex' = [private_key_hex EXCEPT ![r] = hex(private_key_bytes[r])]
    /\ pc' = [pc EXCEPT ![r] = "print"]
    /\ UNCHANGED <<argv, fs, key_file_path, handle, key_data, data,
                   private_key_bytes, exc, stdout, stderr, status>>

\* print(private_key_hex)
PrintHex(r) ==
    /\ pc[r] = "print"
    /\ trace' = [trace EXCEPT ![r] = Append(@, "print")]
    /\ stdout' = [stdout EXCEPT ![r] = @ \o private_key_hex[r] \o NL]
    /\ pc' = [pc EXCEPT ![r] = "return"]
    /\ UNCHANGED <<argv, fs, key_file_path, handle, key_data, data,
                   private_key_bytes, private_key_hex, exc, stderr, status>>

\* the function returns and the script ends: exit status 0
Return(r) ==
    /\ pc[r] = "return"
    /\ status' = [status EXCEPT ![r] = <<0>>]
    /\ pc' = [pc EXCEPT ![r] = "done"]
    /\ UNCHANGED <<argv, fs, key_file_path, handle, key_data, data,
                   private_key_bytes, private_key_hex, exc, stdout, stderr, trace>>

IsExceptionOrExit(t) == t # "None"

\* the classes derived from Exception; SystemExit derives from BaseException
IsException(t) == t \notin {"None", "SystemExit"}

ClausesCatchAllFirst == <<"Exception", "FileNotFoundError">>

\* the except clauses of the try statement, in order
Clauses == <<"FileNotFoundError", "Exception">>

ClauseMatches(c, t) ==
    IF c = "Exception" THEN IsException(t) ELSE t = c

\* the first clause that matches the raised exception, "" if none does
HandlerFor(t) ==
    IF \E i \in 1..Len(Clauses) : ClauseMatches(Clauses[i], t)
    THEN Clauses[CHOOSE i \in 1..Len(Clauses) :
                    /\ ClauseMatches(Clauses[i], t)
                    /\ \A j \in 1..(i - 1) : ~ClauseMatches(Clauses[j], t)]
    ELSE ""

\* except FileNotFoundError: diagnostic naming the path, sys.exit(1)
ExceptFileNotFound(r) ==
    /\ pc[r] = "except"
    /\ HandlerFor(exc[r].type) = "FileNotFoundError"
    /\ stderr' = [stderr EXCEPT ![r] = Append(@, NotFound(key_file_path[r]))]
    /\ status' = [status EXCEPT ![r] = <<1>>]
    /\ pc' = [pc EXCEPT ![r] = "done"]
    /\ trace' = [trace EXCEPT ![r] = Append(@, "except FileNotFoundError")]
    /\ UNCHANGED <<argv, fs, key_file_path, handle, key_data, data,
                   private_key_bytes, private_key_hex, exc, stdout>>

\* except Exception as e: diagnostic with the exception's text, sys.exit(1)
ExceptException(r) ==
    /\ pc[r] = "except"
    /\ HandlerFor(exc[r].type) = "Exception"
    /\ stderr' = [stderr EXCEPT ![r] = Append(@, Error(exc[r]))]
    /\ status' = [status EXCEPT ![r] = <<1>>]
    /\ pc' = [pc EXCEPT ![r] = "done"]
    /\ trace' = [trace EXCEPT ![r] = Append(@, "except Exception")]
    /\ UNCHANGED <<argv, fs, key_file_path, handle, key_data, data,
                   private_key_bytes, private_key_hex, exc, stdout>>

\* no clause matches (the SystemExit of sys.exit(1)): the process exits
Propagate(r) ==
    /\ pc[r] = "except"
    /\ HandlerFor(exc[r].type) = ""
    /\ status' = [status EXCEPT ![r] = <<exc[r].code>>]
    /\ pc' = [pc EXCEPT ![r] = "done"]
    /\ trace' = [trace EXCEPT ![r] = Append(@, "exit")]
    /\ UNCHANGED <<argv, fs, key_file_path, handle, key_data, data,
                   private_key_bytes, private_key_hex, exc, stdout, stderr>>

Next ==
    \E r \in Runs :
        \/ MainUsage(r)
        \/ MainCall(r)
        \/ Open(r)
        \/ Read(r)
        \/ Close(r)
        \/ Decode(r)
        \/ Check(r)
        \/ Slice(r)
        \/ Hex(r)
        \/ PrintHex(r)
        \/ Return(r)
        \/ ExceptFileNotFound(r)
        \/ ExceptException(r)
        \/ Propagate(r)

Spec == Init /\ [][Next]_vars

(* ============================== properties ============================ *)
Done(r) == pc[r] = "done"
InTrace(r, x) == \E i \in 1..Len(trace[r]) : trace[r][i] = x

\* "0123456789abcdef"
HexChars == <<48, 49, 50, 51, 52, 53, 54, 55, 56, 57, 97, 98, 99, 100, 101, 102>>

\* one line of 64 characters from 0-9a-f, ended by a newline
IsHexLine(s) ==
    /\ Len(s) = 65
    /\ s[65] = 10
    /\ \A i \in 1..64 : \E k \in 1..16 : s[i] = HexChars[k]

\* the line that shows bytes k[1..32] in lowercase hex
HexLineOf(k) ==
    [i \in 1..65 |->
        IF i = 65 THEN 10
        ELSE IF i % 2 = 1 THEN HexChars[(k[(i + 1) \div 2] \div 16) + 1]
        ELSE HexChars[(k[i \div 2] % 16) + 1]]

\* the byte sequences of at least 33 bytes and their encodings
KeyFiles ==
    {[b |-> Payload(n, f, sd, t), text |-> b64encode(Payload(n, f, sd, t))] :
        n \in {k \in Lens : k >= 33}, f \in Flags, sd \in Seeds, t \in Tails}

\* C1: when the file holds the base64 encoding of a byte sequence B of at
\* least 33 bytes, the run ends with exit status 0 and stdout is exactly the
\* line of the 64 lowercase hex digits of B[1:33].
C1_RoundTrip ==
    \A r \in Runs : \A k \in KeyFiles :
        (Done(r) /\ Len(argv[r]) = 2 /\ fs[r].status = "ok" /\ fs[r].text = k.text)
            => /\ status[r] = <<0>>
               /\ stdout[r] = HexLineOf([i \in 1..32 |-> k.b[i + 1]])
               /\ IsHexLine(stdout[r])

C1_Witness ==
    \E r \in Runs : \E k \in KeyFiles :
        /\ Done(r) /\ Len(argv[r]) = 2 /\ fs[r].status = "ok" /\ fs[r].text = k.text
        /\ Len(k.b) > 33 /\ k.b[1] = 255
        /\ InTrace(r, "print")

\* C2: a terminated run either succeeded (status 0, one hex line on stdout,
\* nothing on stderr) or failed (status 1, nothing on stdout, a diagnostic
\* on stderr).
C2_TwoOutcomes ==
    \A r \in Runs :
        Done(r) =>
            \/ status[r] = <<0>> /\ IsHexLine(stdout[r]) /\ stderr[r] = <<>>
            \/ status[r] = <<1>> /\ stdout[r] = <<>> /\ Len(stderr[r]) >= 1

C2_Witness ==
    /\ Done(1) /\ status[1] = <<1>> /\ stdout[1] = <<>> /\ stderr[1] # <<>>
    /\ Done(2) /\ status[2] = <<0>> /\ stdout[2] # <<>> /\ stderr[2] = <<>>

\* the stripped text has been read from the file
Loaded(r) == InTrace(r, "read") /\ fs[r].status = "ok"

IsB64Char(c) ==
    \/ c \in 65..90
    \/ c \in 97..122
    \/ c \in 48..57
    \/ c \in {43, 47}

\* a valid base64 string: alphabet characters in groups of four, the last
\* group closed by at most two '='
ValidBase64(s) ==
    /\ Len(s) % 4 = 0
    /\ \E p \in 0..2 :
        /\ p <= Len(s)
        /\ \A i \in 1..(Len(s) - p) : IsB64Char(s[i])
        /\ \A i \in (Len(s) - p + 1)..Len(s) : s[i] = 61

DecodeFailureReported(r) ==
    /\ ~InTrace(r, "check") /\ ~InTrace(r, "slice") /\ ~InTrace(r, "print")
    /\ stdout[r] = <<>>
    /\ Done(r) => /\ status[r] = <<1>>
                  /\ Len(stderr[r]) = 1
                  /\ stderr[r][1].kind = "ERROR"
                  /\ InTrace(r, "decode")

\* C3 as stated: every stripped text that is not a valid base64 string ends
\* in a decoding-failure diagnostic, a non-zero status and an empty stdout,
\* and never reaches the length check, the slice or the print.
C3_Original ==
    \A r \in Runs :
        (Loaded(r) /\ ~ValidBase64(key_data[r])) => DecodeFailureReported(r)

DataCount(s, i) == Cardinality({j \in 1..i : IsB64Char(s[j])})

\* the '=' read since the last alphabet character, up to position i
PadsSince(s, i) ==
    Cardinality({j \in 1..i : s[j] = 61 /\ \A m \in j..i : ~IsB64Char(s[m])})

\* a '=' that closes a group: after 3 characters of the group, or the
\* second '=' after 2 characters
ClosesGroup(s, i) ==
    /\ s[i] = 61
    /\ \/ DataCount(s, i) % 4 = 3
       \/ DataCount(s, i) % 4 = 2 /\ PadsSince(s, i) >= 2

\* the texts the decoder rejects: a non-ASCII character, or alphabet
\* characters that leave a group incomplete with no '=' closing it
Rejected(s) ==
    \/ \E i \in 1..Len(s) : s[i] >= 128
    \/ /\ DataCount(s, Len(s)) % 4 # 0
       /\ ~\E i \in 1..Len(s) : ClosesGroup(s, i)

\* C3 amended: every stripped text that holds a non-ASCII character, or
\* whose base64-alphabet characters (all others being discarded) leave a
\* group of four incomplete and unclosed by '=' padding, ends in a
\* decoding-failure diagnostic, status 1 and an empty stdout, and never
\* reaches the length check, the slice or the print.
C3_Amended ==
    \A r \in Runs :
        (Loaded(r) /\ Rejected(key_data[r])) => DecodeFailureReported(r)

C3_Witness ==
    \E r \in Runs :
        /\ Loaded(r) /\ Rejected(key_data[r]) /\ Done(r)
        /\ IsAscii(key_data[r]) /\ Len(key_data[r]) > 40

\* the file content was decoded to data[r]
Decoded(r) == InTrace(r, "check")

\* C4: a payload of n < 33 bytes gives an empty stdout, one length
\* diagnostic naming n and 33, and status 1; a payload of 33 bytes or more
\* passes the length check and ends with status 0.
C4_LengthCheck ==
    \A r \in Runs :
        (Done(r) /\ Decoded(r)) =>
            IF Len(data[r]) < 33
            THEN /\ stdout[r] = <<>>
                 /\ status[r] = <<1>>
                 /\ Len(stderr[r]) = 1
                 /\ stderr[r][1].kind = "Decoded data too short"
                 /\ stderr[r][1].len = Len(data[r])
                 /\ stderr[r][1].min = 33
            ELSE status[r] = <<0>> /\ stderr[r] = <<>>

C4_Witness ==
    /\ Done(1) /\ Decoded(1) /\ Len(data[1]) = 32 /\ status[1] = <<1>>
    /\ Done(2) /\ Decoded(2) /\ Len(data[2]) = 33 /\ status[2] = <<0>>

\* the diagnostic that the cause of a run's failure calls for
ExpectedKind(r) ==
    IF Len(argv[r]) # 2 THEN "Usage"
    ELSE IF fs[r].status = "missing" THEN "Key file not found"
    ELSE IF Decoded(r) THEN "Decoded data too short"
    ELSE "ERROR"

\* C5: a failing run writes exactly one diagnostic, the one of its error,
\* and exits with status 1; once a diagnostic is written the run takes no
\* further step of the program, and the exit of the length check is not
\* caught by the catch-all handler.
C5_ReportedOnce ==
    \A r \in Runs :
        /\ Len(stderr[r]) <= 1
        /\ stderr[r] # <<>> =>
              \/ Done(r)
              \/ pc[r] = "except" /\ exc[r].type = "SystemExit"
        /\ (Done(r) /\ status[r] # <<0>>) =>
              /\ status[r] = <<1>>
              /\ Len(stderr[r]) = 1
              /\ stderr[r][1].kind = ExpectedKind(r)
        /\ (Done(r) /\ exc[r].type = "SystemExit") =>
              ~InTrace(r, "except Exception")

C5_Witness ==
    \E r \in Runs :
        /\ Done(r) /\ exc[r].type = "SystemExit"
        /\ Len(stderr[r]) = 1 /\ status[r] = <<1>>

\* C6: for a path that names no file the run writes the 'Key file not
\* found' diagnostic naming the path, nothing on stdout, and exits with
\* status 1; the not-found handler runs and the catch-all handler does not.
C6_NotFound ==
    \A r \in Runs :
        (Done(r) /\ Len(argv[r]) = 2 /\ fs[r].status = "missing") =>
            /\ stderr[r] = <<[kind |-> "Key file not found", arg |-> argv[r][2],
                             len |-> 0, min |-> 0]>>
            /\ stdout[r] = <<>>
            /\ status[r] = <<1>>
            /\ InTrace(r, "except FileNotFoundError")
            /\ ~InTrace(r, "except Exception")

C6_Witness ==
    \E r \in Runs :
        /\ Done(r) /\ Len(argv[r]) = 2 /\ fs[r].status = "missing"
        /\ exc[r].type = "FileNotFoundError"

\* C7: with an argument count other than one the run writes the usage
\* diagnostic, nothing on stdout, exits with status 1, and never calls
\* extract_private_key: no file is opened or read.
C7_Usage ==
    \A r \in Runs :
        Len(argv[r]) # 2 =>
            /\ pc[r] \in {"main", "done"}
            /\ handle[r] = "none"
            /\ ~InTrace(r, "call") /\ ~InTrace(r, "open:r") /\ ~InTrace(r, "read")
            /\ stdout[r] = <<>>
            /\ Done(r) => /\ status[r] = <<1>>
                          /\ Len(stderr[r]) = 1
                          /\ stderr[r][1].kind = "Usage"

C7_Witness ==
    /\ Done(1) /\ Len(argv[1]) = 1
    /\ Done(2) /\ Len(argv[2]) > 2 /\ fs[2].status = "ok"

\* t2 is t1 with whitespace added in front and/or behind
IsPadded(t2, t1) ==
    \E k \in 0..(Len(t2) - Len(t1)) :
        /\ \A i \in 1..Len(t1) : t2[k + i] = t1[i]
        /\ \A i \in 1..k : t2[i] \in {9, 10, 13, 32}
        /\ \A i \in (k + Len(t1) + 1)..Len(t2) : t2[i] \in {9, 10, 13, 32}

\* C8: two runs on readable files, the content of one being the content of
\* the other with whitespace added around it, end with the same exit status
\* and the same stdout.
C8_Whitespace ==
    \A r1 \in Runs : \A r2 \in Runs :
        ( /\ Done(r1) /\ Done(r2)
          /\ argv[r1] = argv[r2] /\ fs[r1].status = "ok" /\ fs[r2].status = "ok"
          /\ IsPadded(fs[r2].text, fs[r1].text) )
            => status[r1] = status[r2] /\ stdout[r1] = stdout[r2]

C8_Witness ==
    /\ Done(1) /\ Done(2) /\ Len(argv[1]) = 2 /\ Len(argv[2]) = 2
    /\ fs[1].status = "ok" /\ fs[2].status = "ok"
    /\ fs[1].text # fs[2].text
    /\ IsPadded(fs[2].text, fs[1].text)
    /\ status[1] = <<0>>

\* the payloads agree on offsets 1 through 32
SameKey(b1, b2) ==
    /\ Len(b1) >= 33 /\ Len(b2) >= 33
    /\ \A i \in 2..33 : b1[i] = b2[i]

\* C9: two runs whose decoded payloads have at least 33 bytes and agree on
\* offsets 1..32 both end with status 0 and the same stdout, whatever the
\* flag byte and the bytes after offset 32.
C9_OnlyKeyBytes ==
    \A r1 \in Runs : \A r2 \in Runs :
        (Done(r1) /\ Done(r2) /\ Decoded(r1) /\ Decoded(r2)
            /\ SameKey(data[r1], data[r2]))
            => /\ stdout[r1] = stdout[r2]
               /\ status[r1] = <<0>> /\ status[r2] = <<0>>

C9_FlagWitness ==
    /\ Done(1) /\ Done(2) /\ Decoded(1) /\ Decoded(2)
    /\ SameKey(data[1], data[2])
    /\ data[1][1] # data[2][1]

\* the steps of the claim, in the order claimed
StepOrder == <<"open:r", "read", "close", "decode", "check", "slice", "print">>
IsStep(x) == \E i \in 1..Len(StepOrder) : StepOrder[i] = x

\* C10: the steps occur in the order open, read, close, decode, length
\* check, slice, print, each at most once; the file is opened read-only;
\* the handle is closed before decoding starts, also when the read fails,
\* and is never open once the process has exited.
C10_OrderAndRelease ==
    \A r \in Runs :
        /\ LET t == SelectSeq(trace[r], IsStep) IN
             /\ Len(t) <= Len(StepOrder)
             /\ \A i \in 1..Len(t) : t[i] = StepOrder[i]
        /\ pc[r] \in {"decode", "check", "slice", "hex", "print", "return"}
              => handle[r] = "closed"
        /\ InTrace(r, "decode") => handle[r] = "closed"
        /\ (exc[r].type = "UnicodeDecodeError" /\ pc[r] \in {"except", "done"})
              => handle[r] = "closed"
        /\ Done(r) => handle[r] # "open"

C10_Witness ==
    /\ Done(1) /\ exc[1].type = "UnicodeDecodeError" /\ handle[1] = "closed"
    /\ Done(2) /\ InTrace(2, "print") /\ handle[2] = "closed"

====
